---- MODULE Spec2Model ----
(***************************************************************************)
(* ramws: an ephemeral workspace mirrored from / to a persistent project.  *)
(* The file system is one function from absolute paths (sequences of       *)
(* names) to "dir" or a file content.  Every command of the CLI is a       *)
(* sequence of steps over that file system; rsync is the mirror primitive. *)
(***************************************************************************)
EXTENDS Integers, Sequences, FiniteSets, TLC

VARIABLES
    fs,       \* the file system: [path -> "dir" | content]
    cfg,      \* the resolved configuration (fixed after start)
    cmd,      \* the running invocation: command, position, inputs, result
    fs0,      \* history: the file system when the running invocation began
    calls,    \* history: the rsync calls of the running invocation, in order
    prev,     \* history: the previous invocation, while nothing else touched fs
    faults,   \* history: how many invocations were killed or failed in rsync
    lines,    \* diff classification: the itemization handed to the classifier
    summary,  \* diff classification: the DiffSummary it produced
    loads,    \* history: the configurations resolved so far, in order
    procs     \* the invocations of sync_back that run side by side

vars == <<fs, cfg, cmd, fs0, calls, prev, faults, lines, summary, loads, procs>>

\* ------------------------------------------------------------------ bounds
\* Longest itemization checked by the classification specification.
MaxLines == 3
\* How many resolutions of the configuration one behaviour compares.
MaxLoads == 2
\* How many invocations may be killed, or have an rsync run fail, in one behaviour.
MaxFaults == 1

\* ------------------------------------------------------------------- paths
Dir == "dir"

OrigRoot == <<"proj">>
WsRoot == <<"shm", "ws">>
Staging == OrigRoot \o <<".ramws-staging">>

Join(root, rel) == root \o rel

IsPrefix(p, q) == Len(p) <= Len(q) /\ SubSeq(q, 1, Len(p)) = p

Rel(d, p) == SubSeq(p, Len(d) + 1, Len(p))

Parent(p) == SubSeq(p, 1, Len(p) - 1)

RECURSIVE CanonAcc(_, _)
CanonAcc(acc, rest) ==
    IF rest = <<>> THEN acc
    ELSE LET h == Head(rest)
             nxt == IF h = "." THEN acc
                    ELSE IF h = ".."
                         THEN (IF acc = <<>> THEN acc ELSE Parent(acc))
                         ELSE Append(acc, h)
         IN CanonAcc(nxt, Tail(rest))

\* Path::canonicalize on a path without symbolic links: "." and ".." resolved.
Canon(p) == CanonAcc(<<>>, p)

\* util::ensure_within_root: Ok iff the canonical candidate starts with the
\* canonical root (canonicalize fails on a path that does not exist).
EnsureWithinRoot(f, root, candidate) ==
    /\ Canon(root) \in DOMAIN f
    /\ Canon(candidate) \in DOMAIN f
    /\ IsPrefix(Canon(root), Canon(candidate))

\* ------------------------------------------------------------- file system
Exists(f, p) == p = <<>> \/ p \in DOMAIN f

IsDir(f, p) == p = <<>> \/ (p \in DOMAIN f /\ f[p] = Dir)

IsFile(f, p) == p \in DOMAIN f /\ f[p] # Dir

Absent == "absent"

Content(f, p) == IF p \in DOMAIN f THEN f[p] ELSE Absent

\* std::fs::create_dir_all
MkdirAll(f, p) ==
    LET new == {SubSeq(p, 1, k) : k \in 1..Len(p)}
    IN [q \in DOMAIN f \cup new |-> IF q \in DOMAIN f THEN f[q] ELSE Dir]

\* std::fs::remove_dir_all
RemoveAll(f, p) == [q \in {x \in DOMAIN f : ~IsPrefix(p, x)} |-> f[q]]

\* What std::fs::remove_dir_all leaves when it stops at an error: p itself
\* and the entries below it that it had not removed yet.
PartialRemovals(f, p) ==
    {[q \in DOMAIN f \ K |-> f[q]] :
        K \in {X \in SUBSET {x \in DOMAIN f : IsPrefix(p, x) /\ x # p} :
                 \A x \in X : \A y \in DOMAIN f : IsPrefix(x, y) => y \in X}}

\* The entries strictly below d, as paths relative to d.
Below(f, d) == {Rel(d, q) : q \in {x \in DOMAIN f : IsPrefix(d, x) /\ x # d}}

\* The subtree at d as a function of relative paths.
Tree(f, d) == [r \in Below(f, d) |-> f[Join(d, r)]]

\* ----------------------------------------------------------- rsync filters
\* A pattern is a sequence of path-component globs: a name, "*" (any one
\* component) or, as its last element, "**" (one or more further components).
\* A pattern is unanchored: it matches at the end of the path.
GlobName(g, c) == g = "*" \/ g = c

MatchTail(pat, r) ==
    /\ Len(pat) <= Len(r)
    /\ \A k \in 1..Len(pat) : GlobName(pat[k], r[Len(r) - Len(pat) + k])

PatMatch(pat, r) ==
    IF pat[Len(pat)] = "**"
    THEN \E j \in 0..(Len(r) - 1) : MatchTail(Parent(pat), SubSeq(r, 1, j))
    ELSE MatchTail(pat, r)

\* The first rule that matches decides; an entry no rule matches is included.
RECURSIVE Verdict(_, _)
Verdict(rules, r) ==
    IF rules = <<>> THEN TRUE
    ELSE IF PatMatch(Head(rules).pat, r) THEN Head(rules).inc
    ELSE Verdict(Tail(rules), r)

\* rsync does not descend into an excluded directory.
Passes(rules, r) == \A k \in 1..Len(r) : Verdict(rules, SubSeq(r, 1, k))

\* ------------------------------------------------------------------- rsync
SyncOptions(delete, include, exclude, itemize, dry_run) ==
    [delete |-> delete, include |-> include, exclude |-> exclude,
     itemize |-> itemize, dry_run |-> dry_run]

\* A faulty variant of FilterArgs: the excludes are put before the includes.
FilterArgsExcludesFirst(opts) ==
    [k \in 1..Len(opts.exclude) |-> [inc |-> FALSE, pat |-> opts.exclude[k]]]
    \o [k \in 1..Len(opts.include) |-> [inc |-> TRUE, pat |-> opts.include[k]]]

\* The --include / --exclude arguments in the order they are put on the
\* command line.
FilterArgs(opts) ==
    [k \in 1..Len(opts.include) |-> [inc |-> TRUE, pat |-> opts.include[k]]]
    \o [k \in 1..Len(opts.exclude) |-> [inc |-> FALSE, pat |-> opts.exclude[k]]]

\* syncer::build_rsync_command: -a, --delete, --dry-run, --itemize-changes,
\* the filters, then "source/" and "dest".  Both directions add the slash.
\* The paths are handed over as joined; the system resolves their "." and
\* ".." when rsync opens them, which src and dst record.
BuildRsyncCommand(source, dest, direction, opts) ==
    [delete |-> opts.delete, dry_run |-> opts.dry_run, itemize |-> opts.itemize,
     rules |-> FilterArgs(opts), src |-> Canon(source), dst |-> Canon(dest)]

\* rsync exits non-zero when the source directory is missing or the
\* destination's parent does not exist.
RsyncCanRun(f, c) == IsDir(f, c.src) /\ IsDir(f, Parent(c.dst))

\* The sender's file list: the source entries the filters let through.
Transfers(f, c) == {r \in Below(f, c.src) : Passes(c.rules, r)}

\* A faulty variant of Deletions: rsync deletes whether or not --delete is given.
DeletionsAlways(f, c) ==
    {r \in Below(f, c.dst) :
       /\ r \notin Transfers(f, c)
       /\ \A q \in Below(f, c.dst) : IsPrefix(r, q) => Passes(c.rules, q)}

\* A faulty variant of Deletions: excluded entries are deleted as well
\* (--delete-excluded).
DeletionsOfExcluded(f, c) ==
    IF c.delete THEN {r \in Below(f, c.dst) : r \notin Transfers(f, c)} ELSE {}

\* --delete: destination entries that are not in the file list, are not
\* protected by an exclude rule and hold no protected entry.
Deletions(f, c) ==
    IF c.delete
    THEN {r \in Below(f, c.dst) :
            /\ r \notin Transfers(f, c)
            /\ \A q \in Below(f, c.dst) : IsPrefix(r, q) => Passes(c.rules, q)}
    ELSE {}

\* The effect of rsync on the entries in K only (K = everything: a full run).
RsyncApply(f, c, K) ==
    LET T == Transfers(f, c) \cap K
        D == Deletions(f, c) \cap K
        gone == {q \in DOMAIN f : \E r \in D : IsPrefix(Join(c.dst, r), q)}
        put == {Join(c.dst, r) : r \in T}
        dom == ((DOMAIN f \ gone) \cup {c.dst}) \cup put
    IN [q \in dom |->
          IF q \in put THEN f[Join(c.src, Rel(c.dst, q))]
          ELSE IF q \in DOMAIN f THEN f[q] ELSE Dir]

Everything(f, c) == Transfers(f, c) \cup Deletions(f, c)

\* A faulty variant of Rsync: --dry-run is not honoured.
RsyncIgnoresDryRun(f, c) == RsyncApply(f, c, Everything(f, c))

\* A successful run.
Rsync(f, c) == IF c.dry_run THEN f ELSE RsyncApply(f, c, Everything(f, c))

\* What a run that exits non-zero may leave behind: nothing when it could not
\* start, else the work done on any part of the entries whose parents exist.
PartialRuns(f, c) ==
    IF c.dry_run \/ ~RsyncCanRun(f, c) THEN {f}
    ELSE {RsyncApply(f, c, K) :
            K \in {X \in SUBSET Everything(f, c) :
                     /\ X # Everything(f, c)
                     /\ \A r \in X \cap Transfers(f, c) :
                          \/ Len(r) = 1
                          \/ Parent(r) \in X
                          \/ Join(c.dst, Parent(r)) \in DOMAIN f}}

\* ----------------------------------------------------------- itemization
\* A line is a sequence of characters; the entry's name follows the marker.
NewFileMark == <<">", "f", "+", "+", "+", "+", "+", "+", "+", "+", "+">>
ChangedFileMark == <<">", "f", "c", "s", "t", "p", "o", "g">>
MetaFileMark == <<".", "f", ".", ".", ".", "p", ".", ".", ".", ".", ".">>
NewDirMark == <<"c", "d", "+", "+", "+", "+", "+", "+", "+", "+", "+">>
NewDeviceMark == <<"c", "D", "+", "+", "+", "+", "+", "+", "+", "+", "+">>
DirTimeMark == <<".", "d", ".", ".", "t", ".", ".", ".", ".", ".", ".">>
DeletingMark == <<"*", "d", "e", "l", "e", "t", "i", "n", "g">>

ItemLine(mark, r) == mark \o <<" ">> \o r

RECURSIVE SeqOf(_)
SeqOf(S) ==
    IF S = {} THEN <<>>
    ELSE LET x == CHOOSE y \in S : TRUE IN <<x>> \o SeqOf(S \ {x})

\* rsync --dry-run --itemize-changes: one line per entry it would change.
ItemizeLines(f, c) ==
    LET sent == {r \in Transfers(f, c) :
                    \/ Join(c.dst, r) \notin DOMAIN f
                    \/ f[Join(c.dst, r)] # f[Join(c.src, r)]}
        mark(r) == IF Join(c.dst, r) \in DOMAIN f THEN ChangedFileMark
                   ELSE IF f[Join(c.src, r)] = Dir THEN NewDirMark
                   ELSE NewFileMark
    IN SeqOf({ItemLine(DeletingMark, r) : r \in Deletions(f, c)}
             \cup {ItemLine(mark(r), r) : r \in sent})

StartsWith(line, pre) ==
    Len(line) >= Len(pre) /\ SubSeq(line, 1, Len(pre)) = pre

ZeroSummary == [changed |-> 0, added |-> 0, deleted |-> 0]

\* syncer::diff_path, the body of its loop over the lines.
ClassifyLine(s, line) ==
    IF \/ StartsWith(line, <<">", "f">>)
       \/ StartsWith(line, <<".", "f">>)
       \/ StartsWith(line, <<"c", "D">>)
    THEN [s EXCEPT !.changed = @ + 1]
    ELSE IF StartsWith(line, NewFileMark)
    THEN [s EXCEPT !.added = @ + 1]
    ELSE IF StartsWith(line, DeletingMark)
    THEN [s EXCEPT !.deleted = @ + 1]
    ELSE s

RECURSIVE ClassifyFrom(_, _)
ClassifyFrom(s, ls) ==
    IF ls = <<>> THEN s ELSE ClassifyFrom(ClassifyLine(s, Head(ls)), Tail(ls))

ClassifyLines(ls) == ClassifyFrom(ZeroSummary, ls)

DiffCommand(source, dest, opts) ==
    BuildRsyncCommand(source, dest, "WorkspaceToOrig", opts)

\* syncer::diff_path: Err when rsync exits non-zero, else the counts.
DiffFails(f, source, dest, opts) == ~RsyncCanRun(f, DiffCommand(source, dest, opts))

DiffPath(f, source, dest, opts) ==
    ClassifyLines(ItemizeLines(f, DiffCommand(source, dest, opts)))

Total(s) == s.added + s.changed + s.deleted

\* The file system after the rsync run of diff_path: the run is made with
\* the options the caller passes, a run that fails leaves it as it was.
DiffRun(f, source, dest, opts, fails) ==
    IF fails \/ DiffFails(f, source, dest, opts) THEN f
    ELSE Rsync(f, DiffCommand(source, dest, opts))

\* ----------------------------------------------------------- configuration
SourceSpec(path, include, exclude) ==
    [path |-> path, include |-> include, exclude |-> exclude]

\* Two plain mappings, and one mapping whose include rescues b.txt from a
\* broader exclude.
PlainSources == <<SourceSpec(<<"a">>, <<>>, <<>>), SourceSpec(<<"b">>, <<>>, <<>>)>>
FilteredSources == <<SourceSpec(<<"a">>, <<(<<"b.txt">>)>>, <<(<<"*">>)>>)>>

BuildDirs == <<[path |-> <<"target">>, type |-> "Scratch"]>>

Configs ==
    [sources : {PlainSources, FilteredSources},
     build_dirs : {BuildDirs},
     delete : BOOLEAN,
     on_exit : {"Ask", "Auto", "Never"}]

SourcePaths(c) == [k \in 1..Len(c.sources) |-> c.sources[k].path]

\* The project on disk before the first invocation; "ext" lies outside both
\* roots, x.txt inside the project but under no mapping.
InitFs ==
    (<<"proj">> :> Dir) @@ (<<"proj", "a">> :> Dir) @@ (<<"proj", "b">> :> Dir)
    @@ (<<"proj", "a", "b.txt">> :> "v0") @@ (<<"proj", "a", "c.txt">> :> "v0")
    @@ (<<"proj", "b", "d.txt">> :> "v0") @@ (<<"proj", "x.txt">> :> "v0")
    @@ (<<"ext">> :> Dir) @@ (<<"ext", "e.txt">> :> "v0") @@ (<<"shm">> :> Dir)

\* What the operator may pass to sync --only, among them a path leaving the root.
EscapePath == <<"..", "ext">>
OnlyChoices == {<<>>, <<(<<"a">>)>>}
EscapeChoices == {<<EscapePath>>}
RoleChoices == {{}, {"Source"}}

\* What the user edits in the workspace.
WsWritable == {<<"a", "b.txt">>, <<"a", "n.txt">>}

\* ------------------------------------------------------------------ state
\* The StatusReport, with a record of what collect_status did to build it:
\* whether it called fs_status and whether that failed, how many diffs it
\* ran and which of them failed.
NoReport ==
    [exists |-> FALSE, cap |-> FALSE, changed |-> 0, added |-> 0, deleted |-> 0,
     statfs |-> FALSE, capFailed |-> FALSE, diffs |-> 0, failed |-> {}]

IdleCmd ==
    [op |-> "idle", pc |-> "idle", paths |-> <<>>, i |-> 0,
     nonint |-> FALSE, force |-> FALSE, rso |-> FALSE, exited |-> FALSE,
     res |-> "none", at |-> "none",
     pending |-> FALSE, asked |-> FALSE, answer |-> "none", confirmed |-> FALSE,
     report |-> NoReport, removed |-> FALSE]

NoFs == <<>>
NoPrev == [op |-> "none", paths |-> <<>>, rso |-> FALSE, res |-> "none", ws |-> <<>>]

Idle == cmd.op = "idle"

Init ==
    /\ fs = InitFs
    /\ cfg \in Configs
    /\ cmd = IdleCmd
    /\ fs0 = NoFs
    /\ calls = <<>>
    /\ prev = NoPrev
    /\ faults = 0
    /\ lines = <<>>
    /\ summary = ZeroSummary
    /\ loads = <<>>
    /\ procs = <<>>

Begin(c) ==
    /\ Idle
    /\ cmd' = c
    /\ fs0' = fs
    /\ calls' = <<>>
    /\ UNCHANGED <<fs, cfg, prev, faults, lines, summary, loads, procs>>

Finish(result, where) == [cmd EXCEPT !.pc = "done", !.res = result, !.at = where]

\* One rsync call of syncer::sync_path, as the history records it.
Call(c, ok) == [src |-> c.src, dst |-> c.dst, dry |-> c.dry_run, ok |-> ok]

\* syncer::sync_path on file system f: the call either succeeds with the whole
\* mirror done (next), or exits non-zero (failed) having done part of it.
SyncPath(f, source, dest, direction, opts, next, failed) ==
    LET c == BuildRsyncCommand(source, dest, direction, opts)
    IN \/ /\ RsyncCanRun(f, c)
          /\ fs' = Rsync(f, c)
          /\ cmd' = next
          /\ calls' = Append(calls, Call(c, TRUE))
          /\ faults' = faults
       \/ /\ ~RsyncCanRun(f, c) \/ faults < MaxFaults
          /\ fs' \in PartialRuns(f, c)
          /\ cmd' = failed
          /\ calls' = Append(calls, Call(c, FALSE))
          /\ faults' = IF RsyncCanRun(f, c) THEN faults + 1 ELSE faults

\* ------------------------------------------------- Workspace::ensure
StartCommand(rso) ==
    Begin([IdleCmd EXCEPT !.op = "start", !.pc = "ensure_root", !.rso = rso])

RECURSIVE MkdirEach(_, _)
MkdirEach(f, ps) ==
    IF ps = <<>> THEN f ELSE MkdirEach(MkdirAll(f, Head(ps)), Tail(ps))

\* ensure_dir(workspace_root), is_tmpfs, then the build directories.
EnsureRoot(statfsOk) ==
    /\ cmd.pc = "ensure_root"
    /\ LET f1 == MkdirAll(fs, WsRoot)
           dirs == [k \in 1..Len(cfg.build_dirs) |->
                      Canon(Join(WsRoot, cfg.build_dirs[k].path))]
       IN IF ~statfsOk
          THEN fs' = f1 /\ cmd' = Finish("err", "statfs")
          ELSE /\ fs' = IF cmd.rso THEN f1 ELSE MkdirEach(f1, dirs)
               /\ cmd' = [cmd EXCEPT !.pc = "ensure_src", !.i = 1]
    /\ UNCHANGED <<cfg, fs0, calls, prev, faults, lines, summary, loads, procs>>

\* A faulty variant of EnsureSource: the mirror never deletes.
EnsureSourceKeepsExtras ==
    /\ cmd.pc = "ensure_src"
    /\ cmd.i <= Len(cfg.sources)
    /\ LET source == cfg.sources[cmd.i]
           src_path == Join(OrigRoot, source.path)
           dest_path == Join(WsRoot, source.path)
           opts == SyncOptions(FALSE, source.include, source.exclude, FALSE, FALSE)
       IN SyncPath(MkdirAll(fs, Canon(dest_path)), src_path, dest_path,
                   "OrigToWorkspace", opts,
                   [cmd EXCEPT !.i = @ + 1], Finish("err", "ensure"))
    /\ UNCHANGED <<cfg, fs0, prev, lines, summary, loads, procs>>

\* One turn of the loop over the sources: ensure_dir(dest), then the mirror.
EnsureSource ==
    /\ cmd.pc = "ensure_src"
    /\ cmd.i <= Len(cfg.sources)
    /\ LET source == cfg.sources[cmd.i]
           src_path == Join(OrigRoot, source.path)
           dest_path == Join(WsRoot, source.path)
           opts == SyncOptions(cfg.delete, source.include, source.exclude, FALSE, FALSE)
       IN SyncPath(MkdirAll(fs, Canon(dest_path)), src_path, dest_path,
                   "OrigToWorkspace", opts,
                   [cmd EXCEPT !.i = @ + 1], Finish("err", "ensure"))
    /\ UNCHANGED <<cfg, fs0, prev, lines, summary, loads, procs>>

\* ensure returned Ok: start is over, a shell session opens.
EnsureDone ==
    /\ cmd.pc = "ensure_src"
    /\ cmd.i > Len(cfg.sources)
    /\ cmd' = IF cmd.op = "shell" THEN [cmd EXCEPT !.pc = "session"]
              ELSE Finish("ok", "none")
    /\ UNCHANGED <<fs, cfg, fs0, calls, prev, faults, lines, summary, loads, procs>>

\* ------------------------------------------------------ syncer::sync_back
\* if staging.exists() { remove_dir_all(staging) }
\*    .context("failed to clean staging directory")?
SbClean ==
    /\ cmd.pc = "sb_clean"
    /\ \/ /\ fs' = IF Exists(fs, Staging) THEN RemoveAll(fs, Staging) ELSE fs
          /\ cmd' = [cmd EXCEPT !.pc = "sb_create"]
          /\ faults' = faults
       \/ /\ Exists(fs, Staging)
          /\ faults < MaxFaults
          /\ fs' \in PartialRemovals(fs, Staging)
          /\ cmd' = Finish("err", "clean")
          /\ faults' = faults + 1
    /\ UNCHANGED <<cfg, fs0, calls, prev, lines, summary, loads, procs>>

\* create_dir_all(staging)
SbCreate ==
    /\ cmd.pc = "sb_create"
    /\ fs' = MkdirAll(fs, Staging)
    /\ cmd' = [cmd EXCEPT !.pc = "sb_stage", !.i = 1]
    /\ UNCHANGED <<cfg, fs0, calls, prev, faults, lines, summary, loads, procs>>

SbOptions == SyncOptions(cfg.delete, <<>>, <<>>, FALSE, FALSE)

\* A faulty variant of SbStage: staging is filled from origin.
SbStageFromOrigin ==
    /\ cmd.pc = "sb_stage"
    /\ cmd.i <= Len(cmd.paths)
    /\ LET rel == cmd.paths[cmd.i]
           stage_path == Join(Staging, rel)
       IN SyncPath(MkdirAll(fs, Canon(Parent(stage_path))), Join(OrigRoot, rel),
                   stage_path, "WorkspaceToOrig", SbOptions,
                   [cmd EXCEPT !.pc = "sb_apply"], Finish("err", "stage"))
    /\ UNCHANGED <<cfg, fs0, prev, lines, summary, loads, procs>>

\* First half of a turn of the loop: workspace -> staging for paths[i].
SbStage ==
    /\ cmd.pc = "sb_stage"
    /\ cmd.i <= Len(cmd.paths)
    /\ LET rel == cmd.paths[cmd.i]
           ws_path == Join(WsRoot, rel)
           stage_path == Join(Staging, rel)
       IN SyncPath(MkdirAll(fs, Canon(Parent(stage_path))), ws_path, stage_path,
                   "WorkspaceToOrig", SbOptions,
                   [cmd EXCEPT !.pc = "sb_apply"], Finish("err", "stage"))
    /\ UNCHANGED <<cfg, fs0, prev, lines, summary, loads, procs>>

\* A faulty variant of SbApply: the staging -> origin mirror is left out.
SbApplyNothing ==
    /\ cmd.pc = "sb_apply"
    /\ cmd' = [cmd EXCEPT !.pc = "sb_stage", !.i = @ + 1]
    /\ UNCHANGED <<fs, cfg, fs0, calls, prev, faults, lines, summary, loads, procs>>

\* Second half of the same turn: staging -> origin for paths[i].
SbApply ==
    /\ cmd.pc = "sb_apply"
    /\ LET rel == cmd.paths[cmd.i]
           stage_path == Join(Staging, rel)
           dest == Join(OrigRoot, rel)
       IN SyncPath(fs, stage_path, dest, "OrigToWorkspace", SbOptions,
                   [cmd EXCEPT !.pc = "sb_stage", !.i = @ + 1],
                   Finish("err", "apply"))
    /\ UNCHANGED <<cfg, fs0, prev, lines, summary, loads, procs>>

\* After the loop: remove_dir_all(staging).ok(); Ok(())
\* The result of the removal is dropped: when it fails, the call is Ok still.
SbFinish ==
    /\ cmd.pc = "sb_stage"
    /\ cmd.i > Len(cmd.paths)
    /\ \/ /\ fs' = RemoveAll(fs, Staging)
          /\ faults' = faults
       \/ /\ faults < MaxFaults
          /\ fs' \in PartialRemovals(fs, Staging)
          /\ faults' = faults + 1
    /\ cmd' = Finish("ok", "none")
    /\ UNCHANGED <<cfg, fs0, calls, prev, lines, summary, loads, procs>>

\* ------------------------------------------------ syncer::refresh_from_orig
RefreshOptions == SyncOptions(cfg.delete, <<>>, <<>>, FALSE, FALSE)

\* A faulty variant of RefreshStep: the workspace root is created on the way.
RefreshStepCreatesRoot ==
    /\ cmd.pc = "refresh"
    /\ cmd.i <= Len(cmd.paths)
    /\ LET rel == cmd.paths[cmd.i]
       IN SyncPath(MkdirAll(fs, WsRoot), Join(OrigRoot, rel), Join(WsRoot, rel),
                   "OrigToWorkspace", RefreshOptions, [cmd EXCEPT !.i = @ + 1],
                   Finish("err", "refresh"))
    /\ UNCHANGED <<cfg, fs0, prev, lines, summary, loads, procs>>

\* A faulty variant of RefreshStep: the mirror runs from workspace to origin.
RefreshStepToOrigin ==
    /\ cmd.pc = "refresh"
    /\ cmd.i <= Len(cmd.paths)
    /\ LET rel == cmd.paths[cmd.i]
       IN SyncPath(fs, Join(WsRoot, rel), Join(OrigRoot, rel), "OrigToWorkspace",
                   RefreshOptions, [cmd EXCEPT !.i = @ + 1], Finish("err", "refresh"))
    /\ UNCHANGED <<cfg, fs0, prev, lines, summary, loads, procs>>

\* A faulty variant of RefreshStep: a failed mirror does not end the loop.
RefreshStepGoesOn ==
    /\ cmd.pc = "refresh"
    /\ cmd.i <= Len(cmd.paths)
    /\ LET rel == cmd.paths[cmd.i]
       IN SyncPath(fs, Join(OrigRoot, rel), Join(WsRoot, rel), "OrigToWorkspace",
                   RefreshOptions, [cmd EXCEPT !.i = @ + 1], [cmd EXCEPT !.i = @ + 1])
    /\ UNCHANGED <<cfg, fs0, prev, lines, summary, loads, procs>>

RefreshStep ==
    /\ cmd.pc = "refresh"
    /\ cmd.i <= Len(cmd.paths)
    /\ LET rel == cmd.paths[cmd.i]
       IN SyncPath(fs, Join(OrigRoot, rel), Join(WsRoot, rel), "OrigToWorkspace",
                   RefreshOptions, [cmd EXCEPT !.i = @ + 1], Finish("err", "refresh"))
    /\ UNCHANGED <<cfg, fs0, prev, lines, summary, loads, procs>>

RefreshDone ==
    /\ cmd.pc = "refresh"
    /\ cmd.i > Len(cmd.paths)
    /\ cmd' = Finish("ok", "none")
    /\ UNCHANGED <<fs, cfg, fs0, calls, prev, faults, lines, summary, loads, procs>>

\* ------------------------------------------------------ main::sync_command
\* The order of PathBuf on the names in use (byte order of the components).
NameOrder == <<"..", "a", "b", "sub", "target">>
Rank(n) == CHOOSE k \in 1..Len(NameOrder) : NameOrder[k] = n

RECURSIVE PathLess(_, _)
PathLess(p, q) ==
    IF p = <<>> THEN q # <<>>
    ELSE IF q = <<>> THEN FALSE
    ELSE IF Head(p) = Head(q) THEN PathLess(Tail(p), Tail(q))
    ELSE Rank(Head(p)) < Rank(Head(q))

\* paths.sort(); paths.dedup()
RECURSIVE SortDedup(_)
SortDedup(S) ==
    IF S = {} THEN <<>>
    ELSE LET m == CHOOSE x \in S : \A y \in S \ {x} : PathLess(x, y)
         IN <<m>> \o SortDedup(S \ {m})

Range(q) == {q[k] : k \in 1..Len(q)}

BuildPaths(c, kind) ==
    {c.build_dirs[k].path : k \in {j \in 1..Len(c.build_dirs) : c.build_dirs[j].type = kind}}

SelectPaths(c, only, roles) ==
    LET include_sources == roles = {} \/ "Source" \in roles
        byRole == (IF include_sources THEN Range(SourcePaths(c)) ELSE {})
                  \cup (IF "Cache" \in roles THEN BuildPaths(c, "Cache") ELSE {})
                  \cup (IF "Scratch" \in roles THEN BuildPaths(c, "Scratch") ELSE {})
        selected == IF only # <<>> THEN only ELSE SortDedup(byRole)
    IN IF selected = <<>> THEN SourcePaths(c) ELSE selected

SyncCommand(back, only, roles, nonint) ==
    Begin([IdleCmd EXCEPT !.op = IF back THEN "syncback" ELSE "refresh",
                          !.pc = IF back THEN "sb_clean" ELSE "refresh",
                          !.paths = SelectPaths(cfg, only, roles),
                          !.i = 1, !.nonint = nonint])

\* ------------------------------------ main::shell_command, shell::run_shell
ShellCommand(nonint) ==
    Begin([IdleCmd EXCEPT !.op = "shell", !.pc = "ensure_root", !.nonint = nonint])

\* The shell process ends; handle_on_exit begins.
ShellExit ==
    /\ cmd.pc = "session"
    /\ cmd' = [cmd EXCEPT !.pc = "on_exit", !.exited = TRUE]
    /\ fs0' = fs
    /\ calls' = <<>>
    /\ UNCHANGED <<fs, cfg, prev, faults, lines, summary, loads, procs>>

\* A faulty variant of PromptConfirm: empty input counts as no.
PromptConfirmNoDefault(answer, default) == answer = "y"

\* prompt_confirm: the operator's answer, the default on empty input.
PromptConfirm(answer, default) == IF answer = "" THEN default ELSE answer = "y"

Answers == {"y", "n", ""}

\* syncer::confirm_if_needed applied to the running invocation.
Confirmed(c, answer) ==
    [c EXCEPT !.asked = ~c.nonint,
              !.answer = IF c.nonint THEN "none" ELSE answer,
              !.confirmed = IF c.nonint THEN TRUE ELSE PromptConfirm(answer, TRUE)]

ExitOptions == SyncOptions(cfg.delete, <<>>, <<>>, TRUE, TRUE)

\* The loop of handle_on_exit over the paths: the first diff that fails ends
\* it with the error, the first non-zero diff with pending = true.
RECURSIVE PendingScan(_, _, _, _)
PendingScan(f, paths, k, failAt) ==
    IF k > Len(paths) THEN "clean"
    ELSE LET ws == Join(WsRoot, paths[k])
             orig == Join(OrigRoot, paths[k])
         IN IF k = failAt \/ DiffFails(f, ws, orig, ExitOptions) THEN "err"
            ELSE IF Total(DiffPath(f, ws, orig, ExitOptions)) > 0 THEN "pending"
            ELSE PendingScan(f, paths, k + 1, failAt)

\* A faulty variant of ExitNever: the exit syncs back as under Auto.
ExitNeverSyncs ==
    /\ cmd.pc = "on_exit"
    /\ cfg.on_exit = "Never"
    /\ cmd' = [cmd EXCEPT !.pc = "sb_clean", !.paths = SourcePaths(cfg), !.i = 1]
    /\ UNCHANGED <<fs, cfg, fs0, calls, prev, faults, lines, summary, loads, procs>>

\* The file system after the diffs of that loop.
RECURSIVE AfterPendingScan(_, _, _, _)
AfterPendingScan(f, paths, k, failAt) ==
    IF k > Len(paths) THEN f
    ELSE LET ws == Join(WsRoot, paths[k])
             orig == Join(OrigRoot, paths[k])
             g == DiffRun(f, ws, orig, ExitOptions, k = failAt)
         IN IF k = failAt \/ DiffFails(f, ws, orig, ExitOptions) THEN g
            ELSE IF Total(DiffPath(f, ws, orig, ExitOptions)) > 0 THEN g
            ELSE AfterPendingScan(g, paths, k + 1, failAt)

ExitNever ==
    /\ cmd.pc = "on_exit"
    /\ cfg.on_exit = "Never"
    /\ cmd' = Finish("ok", "none")
    /\ UNCHANGED <<fs, cfg, fs0, calls, prev, faults, lines, summary, loads, procs>>

\* A faulty variant of ExitAuto: the exit syncs back only what is pending.
ExitAutoOnlyPending ==
    /\ cmd.pc = "on_exit"
    /\ cfg.on_exit = "Auto"
    /\ cmd' = IF PendingScan(fs, SourcePaths(cfg), 1, 0) = "pending"
              THEN [cmd EXCEPT !.pc = "sb_clean", !.paths = SourcePaths(cfg), !.i = 1]
              ELSE Finish("ok", "none")
    /\ UNCHANGED <<fs, cfg, fs0, calls, prev, faults, lines, summary, loads, procs>>

ExitAuto ==
    /\ cmd.pc = "on_exit"
    /\ cfg.on_exit = "Auto"
    /\ cmd' = [cmd EXCEPT !.pc = "sb_clean", !.paths = SourcePaths(cfg), !.i = 1]
    /\ UNCHANGED <<fs, cfg, fs0, calls, prev, faults, lines, summary, loads, procs>>

\* failAt: the mapping whose diff the environment makes fail (0: none).
ExitAsk(failAt) ==
    /\ cmd.pc = "on_exit"
    /\ cfg.on_exit = "Ask"
    /\ LET paths == SourcePaths(cfg)
           scan == PendingScan(fs, paths, 1, failAt)
       IN /\ cmd' = IF scan = "err" THEN Finish("err", "diff")
                    ELSE IF scan = "pending"
                    THEN [cmd EXCEPT !.pc = "exit_confirm", !.paths = paths,
                                     !.pending = TRUE]
                    ELSE Finish("ok", "none")
          /\ fs' = AfterPendingScan(fs, paths, 1, failAt)
    /\ UNCHANGED <<cfg, fs0, calls, prev, faults, lines, summary, loads, procs>>

ExitConfirm(answer) ==
    /\ cmd.pc = "exit_confirm"
    /\ LET c == Confirmed(cmd, answer)
       IN cmd' = IF c.confirmed THEN [c EXCEPT !.pc = "sb_clean", !.i = 1]
                 ELSE [c EXCEPT !.pc = "done", !.res = "ok"]
    /\ UNCHANGED <<fs, cfg, fs0, calls, prev, faults, lines, summary, loads, procs>>

\* ------------------------------------------------- status::collect_status
StatusOptions(source) ==
    SyncOptions(cfg.delete, source.include, source.exclude, TRUE, TRUE)

AddSummary(a, b) ==
    [changed |-> a.changed + b.changed, added |-> a.added + b.added,
     deleted |-> a.deleted + b.deleted]

\* A faulty variant of SumDiffs: a diff the environment made fail is counted.
RECURSIVE SumDiffsCountsFailed(_, _, _)
SumDiffsCountsFailed(f, k, failSet) ==
    IF k > Len(cfg.sources) THEN ZeroSummary
    ELSE LET source == cfg.sources[k]
             ws_path == Join(WsRoot, source.path)
             orig_path == Join(OrigRoot, source.path)
             rest == SumDiffsCountsFailed(f, k + 1, failSet)
         IN IF DiffFails(f, ws_path, orig_path, StatusOptions(source))
            THEN rest
            ELSE AddSummary(DiffPath(f, ws_path, orig_path, StatusOptions(source)), rest)

\* The loop over the sources: a diff that fails is left out of the sums.
RECURSIVE SumDiffs(_, _, _)
SumDiffs(f, k, failSet) ==
    IF k > Len(cfg.sources) THEN ZeroSummary
    ELSE LET source == cfg.sources[k]
             ws_path == Join(WsRoot, source.path)
             orig_path == Join(OrigRoot, source.path)
             rest == SumDiffs(f, k + 1, failSet)
         IN IF k \in failSet \/ DiffFails(f, ws_path, orig_path, StatusOptions(source))
            THEN rest
            ELSE AddSummary(DiffPath(f, ws_path, orig_path, StatusOptions(source)), rest)

\* The sources whose diff_path returned Err in that loop.
FailedDiffs(f, failSet) ==
    {k \in 1..Len(cfg.sources) :
       \/ k \in failSet
       \/ DiffFails(f, Join(WsRoot, cfg.sources[k].path),
                    Join(OrigRoot, cfg.sources[k].path), StatusOptions(cfg.sources[k]))}

\* The file system after the diffs of that loop.
RECURSIVE AfterDiffs(_, _, _)
AfterDiffs(f, k, failSet) ==
    IF k > Len(cfg.sources) THEN f
    ELSE LET source == cfg.sources[k]
         IN AfterDiffs(DiffRun(f, Join(WsRoot, source.path), Join(OrigRoot, source.path),
                               StatusOptions(source), k \in failSet),
                       k + 1, failSet)

\* The file system collect_status leaves behind.
AfterStatus(f, failSet) == IF Exists(f, WsRoot) THEN AfterDiffs(f, 1, failSet) ELSE f

\* A faulty variant of CollectStatus: the queries are made whether or not the
\* workspace exists.
CollectStatusAlwaysQueries(f, capOk, failSet) ==
    LET sums == SumDiffs(f, 1, failSet)
    IN [exists |-> Exists(f, WsRoot), cap |-> capOk,
        changed |-> sums.changed, added |-> sums.added, deleted |-> sums.deleted,
        statfs |-> TRUE, capFailed |-> ~capOk,
        diffs |-> Len(cfg.sources), failed |-> FailedDiffs(f, failSet)]

\* capOk: fs_status succeeds; failSet: the sources whose diff the environment
\* makes fail.
CollectStatus(f, capOk, failSet) ==
    LET exists == Exists(f, WsRoot)
        sums == IF exists THEN SumDiffs(f, 1, failSet) ELSE ZeroSummary
    IN [exists |-> exists, cap |-> exists /\ capOk,
        changed |-> sums.changed, added |-> sums.added, deleted |-> sums.deleted,
        statfs |-> exists, capFailed |-> exists /\ ~capOk,
        diffs |-> IF exists THEN Len(cfg.sources) ELSE 0,
        failed |-> IF exists THEN FailedDiffs(f, failSet) ELSE {}]

StatusCommand == Begin([IdleCmd EXCEPT !.op = "status", !.pc = "status"])

StatusRun(capOk, failSet) ==
    /\ cmd.pc = "status"
    /\ cmd' = [Finish("ok", "none") EXCEPT !.report = CollectStatus(fs, capOk, failSet)]
    /\ fs' = AfterStatus(fs, failSet)
    /\ UNCHANGED <<cfg, fs0, calls, prev, faults, lines, summary, loads, procs>>

\* ---------------------------------------------------- main::destroy_command
DestroyCommand(force, nonint) ==
    Begin([IdleCmd EXCEPT !.op = "destroy", !.pc = "destroy",
                          !.force = force, !.nonint = nonint])

\* Up to the decision whether to ask: the existence check, then (without
\* --force) the status report and its three counts.
DestroyCheck(capOk, failSet) ==
    /\ cmd.pc = "destroy"
    /\ LET report == CollectStatus(fs, capOk, failSet)
       IN cmd' = IF ~Exists(fs, WsRoot) THEN Finish("ok", "none")
                 ELSE IF cmd.force THEN [cmd EXCEPT !.pc = "delete"]
                 ELSE IF report.added + report.changed + report.deleted > 0
                 THEN [cmd EXCEPT !.pc = "destroy_confirm", !.report = report]
                 ELSE [cmd EXCEPT !.pc = "delete", !.report = report]
    /\ fs' = IF Exists(fs, WsRoot) /\ ~cmd.force THEN AfterStatus(fs, failSet) ELSE fs
    /\ UNCHANGED <<cfg, fs0, calls, prev, faults, lines, summary, loads, procs>>

DestroyConfirm(answer) ==
    /\ cmd.pc = "destroy_confirm"
    /\ LET c == Confirmed(cmd, answer)
       IN cmd' = IF c.confirmed THEN [c EXCEPT !.pc = "delete"]
                 ELSE [c EXCEPT !.pc = "done", !.res = "ok"]
    /\ UNCHANGED <<fs, cfg, fs0, calls, prev, faults, lines, summary, loads, procs>>

\* Workspace::delete
WorkspaceDelete ==
    /\ cmd.pc = "delete"
    /\ fs' = IF Exists(fs, WsRoot) THEN RemoveAll(fs, WsRoot) ELSE fs
    /\ cmd' = [Finish("ok", "none") EXCEPT !.removed = Exists(fs, WsRoot)]
    /\ UNCHANGED <<cfg, fs0, calls, prev, faults, lines, summary, loads, procs>>

\* ------------------------------------------------------------ environment
\* The user's edits happen between invocations or inside the shell session.
UserAtWork == Idle \/ cmd.pc = "session"

WsWrite(rel) ==
    /\ UserAtWork
    /\ IsDir(fs, Parent(Join(WsRoot, rel)))
    /\ Content(fs, Join(WsRoot, rel)) # "v1"
    /\ fs' = (Join(WsRoot, rel) :> "v1") @@ fs
    /\ prev' = NoPrev
    /\ UNCHANGED <<cfg, cmd, fs0, calls, faults, lines, summary, loads, procs>>

\* The workspace disappears between destroy's existence check and the call
\* of Workspace::delete (the ephemeral store was cleared by someone else).
WsVanish ==
    /\ cmd.op = "destroy"
    /\ cmd.pc = "delete"
    /\ Exists(fs, WsRoot)
    /\ fs' = RemoveAll(fs, WsRoot)
    /\ prev' = NoPrev
    /\ UNCHANGED <<cfg, cmd, fs0, calls, faults, lines, summary, loads, procs>>

\* The process is killed in the middle of an invocation.
Kill ==
    /\ ~Idle
    /\ cmd.pc # "done"
    /\ faults < MaxFaults
    /\ faults' = faults + 1
    /\ cmd' = IdleCmd
    /\ fs0' = NoFs
    /\ calls' = <<>>
    /\ prev' = NoPrev
    /\ UNCHANGED <<fs, cfg, lines, summary, loads, procs>>

\* The invocation returns to the caller.
Return ==
    /\ cmd.pc = "done"
    /\ prev' = IF cmd.res = "ok" /\ cmd.op \in {"start", "syncback"}
                THEN [op |-> cmd.op, paths |-> cmd.paths, rso |-> cmd.rso, res |-> cmd.res,
                      ws |-> IF cmd.op = "syncback" THEN Tree(fs0, WsRoot) ELSE <<>>]
                ELSE NoPrev
    /\ cmd' = IdleCmd
    /\ fs0' = NoFs
    /\ calls' = <<>>
    /\ UNCHANGED <<fs, cfg, faults, lines, summary, loads, procs>>

\* --------------------------------------------------------- specifications
\* The steps of Workspace::ensure, of sync_back and of refresh_from_orig.
EnsureSteps == (\E ok \in BOOLEAN : EnsureRoot(ok)) \/ EnsureSource \/ EnsureDone

SyncBackSteps == SbClean \/ SbCreate \/ SbStage \/ SbApply \/ SbFinish

RefreshSteps == RefreshStep \/ RefreshDone

Environment == (\E rel \in WsWritable : WsWrite(rel)) \/ Kill \/ Return

\* start and sync: the operator provisions, edits, syncs back and refreshes.
InitSync == Init /\ cfg.on_exit = "Ask"

Next ==
    \/ \E rso \in BOOLEAN : StartCommand(rso)
    \/ \E back \in BOOLEAN, only \in OnlyChoices, roles \in RoleChoices :
          SyncCommand(back, only, roles, TRUE)
    \/ EnsureSteps
    \/ SyncBackSteps
    \/ RefreshSteps
    \/ Environment

Spec == InitSync /\ [][Next]_vars

\* shell: the session and what handle_on_exit does when it ends.
InitShell == Init /\ cfg.sources = PlainSources

NextShell ==
    \/ \E nonint \in BOOLEAN : ShellCommand(nonint)
    \/ EnsureSteps
    \/ ShellExit
    \/ ExitNever
    \/ ExitAuto
    \/ \E failAt \in 0..Len(cfg.sources) : ExitAsk(failAt)
    \/ \E answer \in Answers : ExitConfirm(answer)
    \/ StatusCommand
    \/ \E capOk \in BOOLEAN, failSet \in SUBSET (1..Len(cfg.sources)) :
          StatusRun(capOk, failSet)
    \/ SyncBackSteps
    \/ Environment

SpecShell == InitShell /\ [][NextShell]_vars

\* status and destroy on a workspace the operator provisioned and edited.
NextDestroy ==
    \/ \E rso \in BOOLEAN : StartCommand(rso)
    \/ EnsureSteps
    \/ StatusCommand
    \/ \E capOk \in BOOLEAN, failSet \in SUBSET (1..Len(cfg.sources)) :
          StatusRun(capOk, failSet)
    \/ \E force \in BOOLEAN, nonint \in BOOLEAN : DestroyCommand(force, nonint)
    \/ \E capOk \in BOOLEAN, failSet \in SUBSET (1..Len(cfg.sources)) :
          DestroyCheck(capOk, failSet)
    \/ \E answer \in Answers : DestroyConfirm(answer)
    \/ WorkspaceDelete
    \/ Environment

SpecDestroy == InitSync /\ [][NextDestroy]_vars

\* The life of the workspace: provisioned, synced, inspected, destroyed.
NextLife ==
    \/ \E rso \in BOOLEAN : StartCommand(rso)
    \/ \E back \in BOOLEAN : SyncCommand(back, <<>>, {}, TRUE)
    \/ StatusCommand
    \/ \E capOk \in BOOLEAN, failSet \in SUBSET (1..Len(cfg.sources)) :
          StatusRun(capOk, failSet)
    \/ \E force \in BOOLEAN : DestroyCommand(force, TRUE)
    \/ \E capOk \in BOOLEAN, failSet \in SUBSET (1..Len(cfg.sources)) :
          DestroyCheck(capOk, failSet)
    \/ \E answer \in Answers : DestroyConfirm(answer)
    \/ WorkspaceDelete
    \/ WsVanish
    \/ EnsureSteps
    \/ SyncBackSteps
    \/ RefreshSteps
    \/ Environment

InitLife == InitSync /\ cfg.sources = PlainSources

SpecLife == InitLife /\ [][NextLife]_vars

\* sync --only with a path that leaves the root.
NextEscape ==
    \/ \E rso \in BOOLEAN : StartCommand(rso)
    \/ \E back \in BOOLEAN, only \in EscapeChoices : SyncCommand(back, only, {}, TRUE)
    \/ EnsureSteps
    \/ SyncBackSteps
    \/ RefreshSteps
    \/ Environment

SpecEscape == InitSync /\ [][NextEscape]_vars

\* ------------------------------------------ the order of the mappings
\* A mapping nested in another one, the outer one protecting the user's
\* n.txt; and two mappings of the same directory with different filters.
NestedSources ==
    <<SourceSpec(<<"a">>, <<>>, <<(<<"n.txt">>)>>), SourceSpec(<<"a", "sub">>, <<>>, <<>>)>>
OverlapSources ==
    <<SourceSpec(<<"a">>, <<(<<"b.txt">>)>>, <<(<<"*">>)>>), SourceSpec(<<"a">>, <<>>, <<>>)>>

Reverse(q) == [k \in 1..Len(q) |-> q[Len(q) + 1 - k]]

\* The same mappings in every order.
Orderings(q) == {[k \in 1..Len(q) |-> q[p[k]]] : p \in Permutations(1..Len(q))}

OrderConfigs ==
    [sources : {NestedSources, Reverse(NestedSources), OverlapSources, Reverse(OverlapSources)},
     build_dirs : {BuildDirs},
     delete : BOOLEAN,
     on_exit : {"Ask"}]

\* The project with a directory below a.
OrderFs ==
    (<<"proj", "a", "sub">> :> Dir) @@ (<<"proj", "a", "sub", "e.txt">> :> "v0") @@ InitFs

OrderWritable == {<<"a", "b.txt">>, <<"a", "n.txt">>, <<"a", "sub", "n.txt">>}

\* The outcome of a call in which an rsync run exits non-zero.
Failed == (<<>> :> "failed")

\* Workspace::ensure, the loop over the sources from position k on, when no
\* run is interrupted.
RECURSIVE EnsureFrom(_, _, _, _)
EnsureFrom(f, sources, delete, k) ==
    IF k > Len(sources) THEN f
    ELSE LET source == sources[k]
             dest_path == Join(WsRoot, source.path)
             opts == SyncOptions(delete, source.include, source.exclude, FALSE, FALSE)
             c == BuildRsyncCommand(Join(OrigRoot, source.path), dest_path,
                                    "OrigToWorkspace", opts)
             g == MkdirAll(f, Canon(dest_path))
         IN IF RsyncCanRun(g, c) THEN EnsureFrom(Rsync(g, c), sources, delete, k + 1)
            ELSE Failed

\* Workspace::ensure as a whole.
EnsureResult(f, c, rso) ==
    LET f1 == MkdirAll(f, WsRoot)
        dirs == [k \in 1..Len(c.build_dirs) |-> Canon(Join(WsRoot, c.build_dirs[k].path))]
    IN EnsureFrom(IF rso THEN f1 ELSE MkdirEach(f1, dirs), c.sources, c.delete, 1)

\* refresh_from_orig, its loop from position k on.
RECURSIVE RefreshFrom(_, _, _)
RefreshFrom(f, paths, k) ==
    IF k > Len(paths) THEN f
    ELSE LET c == BuildRsyncCommand(Join(OrigRoot, paths[k]), Join(WsRoot, paths[k]),
                                    "OrigToWorkspace", RefreshOptions)
         IN IF RsyncCanRun(f, c) THEN RefreshFrom(Rsync(f, c), paths, k + 1) ELSE Failed

RefreshResult(f, paths) == RefreshFrom(f, paths, 1)

\* sync_back, its loop from position k on: stage, then apply, per path.
RECURSIVE SyncBackFrom(_, _, _)
SyncBackFrom(f, paths, k) ==
    IF k > Len(paths) THEN RemoveAll(f, Staging)
    ELSE LET stage_path == Join(Staging, paths[k])
             stage == BuildRsyncCommand(Join(WsRoot, paths[k]), stage_path,
                                        "WorkspaceToOrig", SbOptions)
             apply == BuildRsyncCommand(stage_path, Join(OrigRoot, paths[k]),
                                        "OrigToWorkspace", SbOptions)
             g == MkdirAll(f, Canon(Parent(stage_path)))
         IN IF ~RsyncCanRun(g, stage) THEN Failed
            ELSE IF ~RsyncCanRun(Rsync(g, stage), apply) THEN Failed
            ELSE SyncBackFrom(Rsync(Rsync(g, stage), apply), paths, k + 1)

SyncBackResult(f, paths) ==
    SyncBackFrom(MkdirAll(IF Exists(f, Staging) THEN RemoveAll(f, Staging) ELSE f, Staging),
                 paths, 1)

\* No run of this scenario is interrupted (the budget of faults is spent):
\* an rsync call fails only when it cannot start.
InitOrder ==
    /\ fs = OrderFs
    /\ cfg \in OrderConfigs
    /\ cmd = IdleCmd
    /\ fs0 = NoFs
    /\ calls = <<>>
    /\ prev = NoPrev
    /\ faults = MaxFaults
    /\ lines = <<>>
    /\ summary = ZeroSummary
    /\ loads = <<>>
    /\ procs = <<>>

\* The roles of sync: none, or one that selects nothing, which leaves the
\* mappings in the order of the configuration.
NextOrder ==
    \/ \E rso \in BOOLEAN : StartCommand(rso)
    \/ \E back \in BOOLEAN, roles \in {{}, {"Cache"}} : SyncCommand(back, <<>>, roles, TRUE)
    \/ EnsureSteps
    \/ SyncBackSteps
    \/ RefreshSteps
    \/ \E rel \in OrderWritable : WsWrite(rel)
    \/ Return

SpecOrder == InitOrder /\ [][NextOrder]_vars

\* ------------------------------- a source mapping over the build directory
\* config::default_sources: the whole project, with the default excludes.
DefaultSources ==
    <<SourceSpec(<<".">>, <<>>,
                 <<(<<".git", "**">>), (<<"build", "**">>), (<<"target", "**">>),
                   (<<"node_modules", "**">>)>>)>>

CoverConfigs ==
    [sources : {DefaultSources},
     build_dirs : {BuildDirs},
     delete : BOOLEAN,
     on_exit : {"Ask"}]

\* What the user and the build write in the workspace.
CoverWritable == {<<"a", "b.txt">>, <<"target", "out.o">>}

InitCover ==
    /\ fs = InitFs
    /\ cfg \in CoverConfigs
    /\ cmd = IdleCmd
    /\ fs0 = NoFs
    /\ calls = <<>>
    /\ prev = NoPrev
    /\ faults = 0
    /\ lines = <<>>
    /\ summary = ZeroSummary
    /\ loads = <<>>
    /\ procs = <<>>

NextCover ==
    \/ \E rso \in BOOLEAN : StartCommand(rso)
    \/ EnsureSteps
    \/ \E rel \in CoverWritable : WsWrite(rel)
    \/ Kill
    \/ Return

SpecCover == InitCover /\ [][NextCover]_vars

\* ------------------------------ two invocations of sync_back side by side
\* Nothing coordinates two invocations: each runs sync_back on its own, the
\* steps of the two interleave at the removal or creation of one entry and at
\* the copy or deletion of one entry by a mirror.
Procs == {1, 2}

ProcStart ==
    [pc |-> "check", i |-> 1, src |-> <<>>, dst |-> <<>>,
     todo |-> {}, del |-> {}, bad |-> FALSE, res |-> "none"]

\* The workspace provisioned from the project, a/b.txt edited since.
RaceFs ==
    (Join(WsRoot, <<"a", "b.txt">>) :> "v1")
    @@ EnsureResult(InitFs, [sources |-> PlainSources, build_dirs |-> BuildDirs,
                             delete |-> TRUE], FALSE)

RacePaths == SourcePaths(cfg)

\* The entries below d that hold nothing.
Leaves(f, d) ==
    {q \in DOMAIN f : /\ IsPrefix(d, q)
                      /\ q # d
                      /\ \A x \in DOMAIN f : IsPrefix(q, x) => x = q}

\* unlink or rmdir of one entry.
Remove(f, q) == [x \in DOMAIN f \ {q} |-> f[x]]

ProcFail(p) == [procs EXCEPT ![p].pc = "done", ![p].res = "err"]

\* if staging.exists()
RaceCheck(p) ==
    /\ procs[p].pc = "check"
    /\ procs' = [procs EXCEPT ![p].pc = IF Exists(fs, Staging) THEN "clean" ELSE "create"]
    /\ UNCHANGED <<fs, cfg, cmd, fs0, calls, prev, faults, lines, summary, loads>>

\* remove_dir_all(staging)?, one entry at a time; Err when staging is gone.
RaceClean(p) ==
    /\ procs[p].pc = "clean"
    /\ IF ~Exists(fs, Staging)
       THEN fs' = fs /\ procs' = ProcFail(p)
       ELSE IF Leaves(fs, Staging) = {}
       THEN fs' = Remove(fs, Staging) /\ procs' = [procs EXCEPT ![p].pc = "create"]
       ELSE (\E q \in Leaves(fs, Staging) : fs' = Remove(fs, q)) /\ procs' = procs
    /\ UNCHANGED <<cfg, cmd, fs0, calls, prev, faults, lines, summary, loads>>

\* create_dir_all(staging)?
RaceCreate(p) ==
    /\ procs[p].pc = "create"
    /\ fs' = MkdirAll(fs, Staging)
    /\ procs' = [procs EXCEPT ![p].pc = "stage"]
    /\ UNCHANGED <<cfg, cmd, fs0, calls, prev, faults, lines, summary, loads>>

\* A mirror starts: rsync exits at once when it cannot run, else it creates
\* the destination directory, takes the file list of the source and scans
\* the destination for what --delete removes.
MirrorBegin(p, f, c, running) ==
    IF ~RsyncCanRun(f, c)
    THEN fs' = f /\ procs' = ProcFail(p)
    ELSE /\ fs' = IF c.dst \in DOMAIN f THEN f ELSE (c.dst :> Dir) @@ f
         /\ procs' = [procs EXCEPT ![p].pc = running, ![p].src = c.src, ![p].dst = c.dst,
                                    ![p].todo = Transfers(f, c),
                                    ![p].del = Deletions(f, c), ![p].bad = FALSE]

\* create_dir_all(parent of stage_path), then the start of workspace -> staging.
RaceStageBegin(p) ==
    /\ procs[p].pc = "stage"
    /\ LET rel == RacePaths[procs[p].i]
           stage_path == Join(Staging, rel)
       IN MirrorBegin(p, MkdirAll(fs, Canon(Parent(stage_path))),
                      BuildRsyncCommand(Join(WsRoot, rel), stage_path,
                                        "WorkspaceToOrig", SbOptions),
                      "staging")
    /\ UNCHANGED <<cfg, cmd, fs0, calls, prev, faults, lines, summary, loads>>

\* The start of staging -> origin.
RaceApplyBegin(p) ==
    /\ procs[p].pc = "apply"
    /\ LET rel == RacePaths[procs[p].i]
       IN MirrorBegin(p, fs,
                      BuildRsyncCommand(Join(Staging, rel), Join(OrigRoot, rel),
                                        "OrigToWorkspace", SbOptions),
                      "applying")
    /\ UNCHANGED <<cfg, cmd, fs0, calls, prev, faults, lines, summary, loads>>

\* The mirror copies one entry of its file list, parents first.  An entry
\* that vanished from the source, or whose directory vanished from the
\* destination, is skipped and makes rsync exit non-zero at the end.
RaceCopy(p, r) ==
    /\ procs[p].pc \in {"staging", "applying"}
    /\ r \in procs[p].todo
    /\ Parent(r) \notin procs[p].todo
    /\ LET from == Join(procs[p].src, r)
           to == Join(procs[p].dst, r)
       IN IF from \in DOMAIN fs /\ IsDir(fs, Parent(to))
          THEN /\ fs' = (to :> fs[from]) @@ fs
               /\ procs' = [procs EXCEPT ![p].todo = @ \ {r}]
          ELSE /\ fs' = fs
               /\ procs' = [procs EXCEPT ![p].todo = @ \ {r}, ![p].bad = TRUE]
    /\ UNCHANGED <<cfg, cmd, fs0, calls, prev, faults, lines, summary, loads>>

\* The mirror deletes one destination entry its scan found extraneous.
RaceDelete(p, r) ==
    /\ procs[p].pc \in {"staging", "applying"}
    /\ r \in procs[p].del
    /\ fs' = RemoveAll(fs, Join(procs[p].dst, r))
    /\ procs' = [procs EXCEPT ![p].del = {q \in @ : ~IsPrefix(r, q)}]
    /\ UNCHANGED <<cfg, cmd, fs0, calls, prev, faults, lines, summary, loads>>

\* rsync exits; sync_path fails on a non-zero status, else the loop goes on.
RaceMirrorEnd(p) ==
    /\ procs[p].pc \in {"staging", "applying"}
    /\ procs[p].todo = {}
    /\ procs[p].del = {}
    /\ procs' = IF procs[p].bad THEN ProcFail(p)
                ELSE IF procs[p].pc = "staging" THEN [procs EXCEPT ![p].pc = "apply"]
                ELSE IF procs[p].i < Len(RacePaths)
                THEN [procs EXCEPT ![p].pc = "stage", ![p].i = @ + 1]
                ELSE [procs EXCEPT ![p].pc = "finish"]
    /\ UNCHANGED <<fs, cfg, cmd, fs0, calls, prev, faults, lines, summary, loads>>

\* remove_dir_all(staging).ok(); Ok(()): one entry at a time, errors dropped.
RaceFinish(p) ==
    /\ procs[p].pc = "finish"
    /\ IF ~Exists(fs, Staging)
       THEN fs' = fs /\ procs' = [procs EXCEPT ![p].pc = "done", ![p].res = "ok"]
       ELSE IF Leaves(fs, Staging) = {}
       THEN /\ fs' = Remove(fs, Staging)
            /\ procs' = [procs EXCEPT ![p].pc = "done", ![p].res = "ok"]
       ELSE (\E q \in Leaves(fs, Staging) : fs' = Remove(fs, q)) /\ procs' = procs
    /\ UNCHANGED <<cfg, cmd, fs0, calls, prev, faults, lines, summary, loads>>

RaceEntries == {<<"b.txt">>, <<"c.txt">>, <<"d.txt">>}

InitRace ==
    /\ fs = RaceFs
    /\ cfg \in [sources : {PlainSources}, build_dirs : {BuildDirs},
                 delete : BOOLEAN, on_exit : {"Ask"}]
    /\ cmd = IdleCmd
    /\ fs0 = NoFs
    /\ calls = <<>>
    /\ prev = NoPrev
    /\ faults = 0
    /\ lines = <<>>
    /\ summary = ZeroSummary
    /\ loads = <<>>
    /\ procs = [p \in Procs |-> ProcStart]

NextRace ==
    \E p \in Procs :
       \/ RaceCheck(p)
       \/ RaceClean(p)
       \/ RaceCreate(p)
       \/ RaceStageBegin(p)
       \/ RaceApplyBegin(p)
       \/ \E r \in RaceEntries : RaceCopy(p, r)
       \/ \E r \in RaceEntries : RaceDelete(p, r)
       \/ RaceMirrorEnd(p)
       \/ RaceFinish(p)

SpecRace == InitRace /\ [][NextRace]_vars

\* ------------------------------------------- Config::load_from_file
\* A string is a sequence of pieces of text; a placeholder is one piece.
ProjectVar == "${PROJECT}"
UserVar == "${USER}"
Unset == "unset"

\* str::replace on pieces: every piece equal to pat becomes the pieces of by.
RECURSIVE Replace(_, _, _)
Replace(str, pat, by) ==
    IF str = <<>> THEN <<>>
    ELSE (IF Head(str) = pat THEN by ELSE <<Head(str)>>) \o Replace(Tail(str), pat, by)

\* str::contains
Contains(str, sub) ==
    \E k \in 0..(Len(str) - Len(sub)) : SubSeq(str, k + 1, k + Len(sub)) = sub

\* The project roots resolved, one of them a directory named like the user
\* placeholder, and the first seven hex digits of the SHA-1 of each path.
ProjectRoots == <<(<<"proj">>), (<<"home", "proj">>), (<<"home", UserVar>>)>>
Sha1Hex == <<"3f2a1bc", "9d0e4aa", "c41b7e2">>

Sha1Short(path) == Sha1Hex[CHOOSE k \in 1..Len(ProjectRoots) : ProjectRoots[k] = path]

\* util::project_slug: "{name}-{short}" of the canonical path.
ProjectSlug(path) ==
    LET canonical == Canon(path)
        name == IF canonical = <<>> THEN "project" ELSE canonical[Len(canonical)]
    IN <<name, "-", Sha1Short(canonical)>>

\* util::expand_placeholders: ${PROJECT} first, then ${USER} if USER is set.
ExpandPlaceholders(template, project_slug, user) ==
    LET value == Replace(template, ProjectVar, project_slug)
    IN IF user # Unset THEN Replace(value, UserVar, <<user>>) ELSE value

\* workspace.root of the file: unset, or a template.
NoTemplate == <<>>
Templates ==
    {NoTemplate, <<"/dev/shm/ramws-", UserVar, "/", ProjectVar>>,
     <<"/shm/", ProjectVar>>, <<"/shm/ws">>}
Users == {"alice", "bob", Unset}

\* Config::load_from_file, the workspace root of the ResolvedConfig.
LoadFromFile(orig_root, template, user) ==
    LET project_slug == ProjectSlug(orig_root)
        ws_root_str == IF template = NoTemplate
                       THEN <<"/dev/shm/ramws-", UserVar, "/">> \o project_slug
                       ELSE template
    IN [orig_root |-> orig_root, template |-> template, user |-> user,
        project_slug |-> project_slug,
        workspace_root |-> ExpandPlaceholders(ws_root_str, project_slug, user)]

\* main::load_resolved_config at the start of an invocation.
LoadResolvedConfig(orig_root, template, user) ==
    /\ Len(loads) < MaxLoads
    /\ loads' = Append(loads, LoadFromFile(orig_root, template, user))
    /\ UNCHANGED <<fs, cfg, cmd, fs0, calls, prev, faults, lines, summary, procs>>

InitResolve == Init /\ cfg.sources = PlainSources /\ cfg.delete /\ cfg.on_exit = "Ask"

NextResolve ==
    \E k \in 1..Len(ProjectRoots), template \in Templates, user \in Users :
       LoadResolvedConfig(ProjectRoots[k], template, user)

SpecResolve == InitResolve /\ [][NextResolve]_vars

\* diff_path's classification of an itemization, on every sequence of at most
\* MaxLines sample lines.
Junk == <<"s", "e", "n", "d", "i", "n", "g">>
LineSamples ==
    {ItemLine(NewFileMark, <<"new.txt">>), ItemLine(ChangedFileMark, <<"foo.txt">>),
     ItemLine(DeletingMark, <<"old.txt">>), ItemLine(MetaFileMark, <<"m.txt">>),
     ItemLine(NewDirMark, <<"sub">>), Junk}

SampleSeqs == UNION {[1..n -> LineSamples] : n \in 0..MaxLines}

InitDiff ==
    /\ fs = InitFs
    /\ cfg \in {c \in Configs : c.sources = PlainSources /\ c.delete /\ c.on_exit = "Ask"}
    /\ cmd = [IdleCmd EXCEPT !.op = "diff", !.pc = "classify"]
    /\ fs0 = NoFs
    /\ calls = <<>>
    /\ prev = NoPrev
    /\ faults = 0
    /\ lines \in SampleSeqs
    /\ summary = ZeroSummary
    /\ loads = <<>>
    /\ procs = <<>>

\* The loop of diff_path over the lines of rsync's output.
Classify ==
    /\ cmd.pc = "classify"
    /\ summary' = ClassifyLines(lines)
    /\ cmd' = Finish("ok", "none")
    /\ UNCHANGED <<fs, cfg, fs0, calls, prev, faults, lines, loads, procs>>

NextDiff == Classify

SpecDiff == InitDiff /\ [][NextDiff]_vars

\* ------------------------------------------------------------------ claims
OrigAt(rel) == Canon(Join(OrigRoot, rel))
WsAt(rel) == Canon(Join(WsRoot, rel))
StageAt(rel) == Canon(Join(Staging, rel))

SyncBackPcs == {"sb_clean", "sb_create", "sb_stage", "sb_apply"}

\* C1: if syncback is terminated or fails before phase 3 starts (during the
\* recreation of staging or during any mapping's workspace -> staging mirror),
\* the origin content of every mapping of the call is what it was before the
\* call; and at the moment phase 2 is over and the first staging -> origin
\* mirror is about to run, staging holds the workspace snapshot of every
\* mapping of the call.
C1_OriginUntouchedUntilAllStaged ==
    cmd.op = "syncback" =>
      /\ (cmd.pc \in {"sb_clean", "sb_create", "sb_stage"}
            \/ (cmd.pc = "done" /\ cmd.at = "stage"))
         => \A k \in 1..Len(cmd.paths) :
               Tree(fs, OrigAt(cmd.paths[k])) = Tree(fs0, OrigAt(cmd.paths[k]))
      /\ (cmd.pc = "sb_apply" /\ cmd.i = 1)
         => \A k \in 1..Len(cmd.paths) :
               Tree(fs, StageAt(cmd.paths[k])) = Tree(fs, WsAt(cmd.paths[k]))

\* A mapping whose canonical path lies outside the root it is joined to.
PathEscape(f, root, rel) ==
    /\ Canon(Join(root, rel)) \in DOMAIN f
    /\ ~EnsureWithinRoot(f, root, Join(root, rel))

EscapingCall ==
    \E k \in 1..Len(cmd.paths) :
       PathEscape(fs0, OrigRoot, cmd.paths[k]) \/ PathEscape(fs0, WsRoot, cmd.paths[k])

\* C2: in refresh and syncback (and ensure), a mapping whose canonical path
\* lies outside its root makes the operation fail before any mirror call is
\* executed: no rsync call is made, no tree is changed, the result is an error.
C2_PathEscapeFailsBeforeAnyMirror ==
    (cmd.op \in {"syncback", "refresh"} /\ EscapingCall) =>
      /\ calls = <<>>
      /\ \A p \in DOMAIN fs0 : ~IsPrefix(Staging, p) => Content(fs, p) = fs0[p]
      /\ \A p \in DOMAIN fs : ~IsPrefix(Staging, p) => p \in DOMAIN fs0
      /\ cmd.pc = "done" => cmd.res = "err"

\* The reference classification of one itemization line.
RefKind(line) ==
    IF StartsWith(line, NewFileMark) THEN "added"
    ELSE IF \/ StartsWith(line, <<">", "f">>)
            \/ StartsWith(line, <<".", "f">>)
            \/ StartsWith(line, <<"c", "D">>) THEN "changed"
    ELSE IF StartsWith(line, DeletingMark) THEN "deleted"
    ELSE "ignored"

RefCount(ls, kind) == Cardinality({k \in 1..Len(ls) : RefKind(ls[k]) = kind})

\* C3: for every sequence of itemization lines the counts of diff are those
\* of the reference classification: a brand-new-file line is added and not
\* changed, any other file or metadata transfer line is changed, a deletion
\* line is deleted, every other line is ignored.
C3_DiffCountsMatchReference ==
    (cmd.op = "diff" /\ cmd.pc = "done") =>
      summary = [changed |-> RefCount(lines, "changed"),
                 added |-> RefCount(lines, "added"),
                 deleted |-> RefCount(lines, "deleted")]

\* The invocation returned Ok.
DoneOk(op) == cmd.op = op /\ cmd.pc = "done" /\ cmd.res = "ok"

\* C4: when syncback returns success, every file of the workspace under a
\* mapping of the call (among them the file modified after ensure) has, at
\* the same relative path in origin, exactly the workspace content.
C4_SyncBackWritesWorkspaceContent ==
    DoneOk("syncback") =>
      \A k \in 1..Len(cmd.paths) :
         \A r \in Below(fs, WsAt(cmd.paths[k])) :
            IsFile(fs, Join(WsAt(cmd.paths[k]), r))
              => Content(fs, Join(OrigAt(cmd.paths[k]), r)) = fs[Join(WsAt(cmd.paths[k]), r)]

\* A file of mapping a modified in the workspace reached origin.
C4_Witness ==
    /\ DoneOk("syncback")
    /\ <<"a">> \in Range(cmd.paths)
    /\ Content(fs0, <<"proj", "a", "b.txt">>) = "v0"
    /\ Content(fs0, <<"shm", "ws", "a", "b.txt">>) = "v1"
    /\ Content(fs, <<"proj", "a", "b.txt">>) = "v1"

\* C5: round trip.  When refresh returns success right after a successful
\* syncback of the same mapping, with no edit in between, every file the
\* workspace held under that mapping when syncback began has the same content
\* in the workspace now.
C5_RoundTripKeepsWorkspaceContent ==
    (DoneOk("refresh") /\ prev.op = "syncback" /\ prev.res = "ok") =>
      \A k \in 1..Len(cmd.paths) :
         cmd.paths[k] \in Range(prev.paths) =>
           \A r \in DOMAIN prev.ws :
              (IsPrefix(cmd.paths[k], r) /\ prev.ws[r] # Dir)
                => Content(fs, Join(WsRoot, r)) = prev.ws[r]

\* a/b.txt written, synced back for mapping a, refreshed for mapping a.
C5_Witness ==
    /\ DoneOk("refresh")
    /\ prev.op = "syncback"
    /\ prev.paths = <<(<<"a">>)>>
    /\ cmd.paths = <<(<<"a">>)>>
    /\ <<"a", "b.txt">> \in DOMAIN prev.ws
    /\ prev.ws[<<"a", "b.txt">>] = "v1"
    /\ Content(fs, <<"shm", "ws", "a", "b.txt">>) = "v1"

\* The reference reading of a mapping's filters: an entry is accepted when
\* an include pattern matches it or no exclude pattern does, and so is every
\* directory above it.
RefAccepts(source, r) ==
    \A n \in 1..Len(r) :
       LET q == SubSeq(r, 1, n)
       IN \/ \E k \in 1..Len(source.include) : PatMatch(source.include[k], q)
          \/ ~\E k \in 1..Len(source.exclude) : PatMatch(source.exclude[k], q)

WorkspaceOnly(f, source) ==
    {r \in Below(f, WsAt(source.path)) :
        RefAccepts(source, r) /\ Join(OrigAt(source.path), r) \notin DOMAIN f}

\* The second of two successful calls of ensure, made with the same argument
\* and with nothing in between.
SecondEnsure ==
    DoneOk("start") /\ prev.op = "start" /\ prev.res = "ok" /\ prev.rso = cmd.rso

AllDiffsZero(f) ==
    \A k \in 1..Len(cfg.sources) :
       LET source == cfg.sources[k]
       IN /\ ~DiffFails(f, Join(WsRoot, source.path), Join(OrigRoot, source.path),
                        StatusOptions(source))
          /\ DiffPath(f, Join(WsRoot, source.path), Join(OrigRoot, source.path),
                      StatusOptions(source)) = ZeroSummary

UnsyncedWork(f) ==
    \E k \in 1..Len(cfg.sources) :
       \E r \in Below(f, WsAt(cfg.sources[k].path)) :
          /\ IsFile(f, Join(WsAt(cfg.sources[k].path), r))
          /\ Content(f, Join(OrigAt(cfg.sources[k].path), r))
               # f[Join(WsAt(cfg.sources[k].path), r)]

\* C8: destroy without --force in interactive mode deletes a workspace that
\* holds changes not synced back to origin only after the operator was asked
\* and gave an affirmative answer, also when the diff of some mapping cannot
\* be computed.
C8_DestroyAsksBeforeLosingWork ==
    (cmd.op = "destroy" /\ ~cmd.force /\ ~cmd.nonint /\ cmd.removed /\ UnsyncedWork(fs0))
      => (cmd.asked /\ cmd.confirmed)

\* The exit handling of a shell session under the given policy.
AtExit(policy) == cmd.op = "shell" /\ cmd.exited /\ cfg.on_exit = policy

\* sync_back was entered: it is at one of its steps, it has called rsync, or
\* it stopped at the cleaning of the staging directory.
SyncBackRuns ==
    \/ cmd.pc \in SyncBackPcs
    \/ calls # <<>>
    \/ (cmd.pc = "done" /\ cmd.at = "clean")

SomeDiffPending(f) ==
    \E k \in 1..Len(cfg.sources) :
       Total(DiffPath(f, Join(WsRoot, cfg.sources[k].path),
                      Join(OrigRoot, cfg.sources[k].path), ExitOptions)) > 0

\* C9: at shell exit under on_exit = Ask, syncback runs only when some source
\* mapping has a non-zero diff and the confirmation result is true; in
\* noninteractive mode the result is true and nobody is asked; in interactive
\* mode the result is the operator's answer, empty input counting as yes; on
\* a negative answer origin is left as it was.
C9_AskSyncsOnlyWhenPendingAndConfirmed ==
    AtExit("Ask") =>
      /\ SyncBackRuns => (SomeDiffPending(fs0) /\ cmd.pending /\ cmd.confirmed)
      /\ (cmd.nonint /\ cmd.pending /\ cmd.pc # "exit_confirm")
           => (cmd.confirmed /\ ~cmd.asked)
      /\ cmd.asked => (~cmd.nonint /\ cmd.confirmed = (cmd.answer \in {"y", ""}))
      /\ (cmd.asked /\ ~cmd.confirmed)
           => (~SyncBackRuns /\ Tree(fs, OrigRoot) = Tree(fs0, OrigRoot))

\* The operator pressed return at the prompt and the syncback that followed
\* brought the edited file to origin.
C9_Witness ==
    /\ AtExit("Ask")
    /\ cmd.asked
    /\ cmd.answer = ""
    /\ cmd.confirmed
    /\ cmd.pc = "done"
    /\ cmd.res = "ok"
    /\ Content(fs0, <<"proj", "a", "b.txt">>) = "v0"
    /\ Content(fs, <<"proj", "a", "b.txt">>) = "v1"

\* C10: with on_exit = Never the exit of the shell never triggers syncback,
\* whatever the pending diffs: no mirror runs, and origin and the staging
\* location are what they were when the shell ended.
C10_NeverLeavesOriginAlone ==
    AtExit("Never") =>
      /\ ~SyncBackRuns
      /\ Tree(fs, OrigRoot) = Tree(fs0, OrigRoot)
      /\ Exists(fs, Staging) = Exists(fs0, Staging)

\* The shell ended with an edited file pending and the handler returned.
C10_Witness ==
    /\ AtExit("Never")
    /\ cmd.pc = "done"
    /\ SomeDiffPending(fs)
    /\ Content(fs, <<"shm", "ws", "a", "b.txt">>) = "v1"
    /\ Content(fs, <<"proj", "a", "b.txt">>) = "v0"

\* The successful rsync calls of sync_back for one mapping: workspace ->
\* staging, then staging -> origin.
StagedAndApplied(rel) ==
    \E m \in 1..Len(calls) : \E n \in 1..Len(calls) :
       /\ m < n
       /\ calls[m] = [src |-> WsAt(rel), dst |-> StageAt(rel), dry |-> FALSE, ok |-> TRUE]
       /\ calls[n] = [src |-> StageAt(rel), dst |-> OrigAt(rel), dry |-> FALSE, ok |-> TRUE]

\* C11: with on_exit = Auto the exit of the shell always invokes syncback for
\* every source mapping, without asking, also when every diff is zero: the
\* handler goes from the exit straight into sync_back with the paths of all
\* the sources, nobody is asked, and when it returns Ok every source mapping
\* was staged and applied; when it returns an error, sync_back stopped at the
\* cleaning of the staging directory or at a failed rsync call.
C11_AutoAlwaysSyncsEverySource ==
    AtExit("Auto") =>
      /\ ~cmd.asked
      /\ cmd.pc \in {"on_exit", "done"} \cup SyncBackPcs
      /\ cmd.pc # "on_exit" => cmd.paths = SourcePaths(cfg)
      /\ (cmd.pc = "done" /\ cmd.res = "ok")
           => \A k \in 1..Len(cfg.sources) : StagedAndApplied(cfg.sources[k].path)
      /\ (cmd.pc = "done" /\ cmd.res # "ok")
           => \/ cmd.at = "clean"
              \/ (calls # <<>> /\ ~calls[Len(calls)].ok)

\* The shell ended with nothing pending and both mappings were synced back.
C11_Witness ==
    /\ AtExit("Auto")
    /\ cmd.pc = "done"
    /\ cmd.res = "ok"
    /\ ~SomeDiffPending(fs0)
    /\ Len(calls) = 2 * Len(cfg.sources)
    /\ StagedAndApplied(<<"a">>)
    /\ StagedAndApplied(<<"b">>)

\* A step of the program itself: the running invocation moves on.
ProgramStep == cmd' # cmd /\ cmd.op # "idle" /\ cmd'.op # "idle"

\* C12: the existence of WorkspaceRoot changes only by ensure (absent to
\* provisioned) and by delete (provisioned to absent).  A step of an
\* invocation that creates the root is ensure's first step and one that
\* removes it is Workspace::delete; when ensure returns Ok the root exists;
\* when delete returns the root does not exist and the result is Ok, and on
\* an absent workspace it changes nothing; no step of refresh, syncback or
\* status (and the diffs it runs) creates or removes the root.
C12_RootChangesOnlyByEnsureAndDelete ==
    [][ProgramStep =>
         /\ (~Exists(fs, WsRoot) /\ Exists(fs', WsRoot)) => cmd.pc = "ensure_root"
         /\ (Exists(fs, WsRoot) /\ ~Exists(fs', WsRoot)) => cmd.pc = "delete"
         /\ (cmd.pc = "ensure_src" /\ cmd'.pc = "done" /\ cmd'.res = "ok")
              => Exists(fs', WsRoot)
         /\ cmd.pc = "delete"
              => /\ ~Exists(fs', WsRoot)
                 /\ cmd'.pc = "done" /\ cmd'.res = "ok"
                 /\ ~Exists(fs, WsRoot) => fs' = fs
         /\ cmd.op \in {"refresh", "syncback", "status"}
              => Exists(fs', WsRoot) = Exists(fs, WsRoot)]_vars

\* Absent, provisioned by start, absent again after destroy.
C12_Witness ==
    /\ cmd.op = "destroy"
    /\ cmd.pc = "done"
    /\ cmd.removed
    /\ prev.op = "start"
    /\ Exists(fs0, WsRoot)
    /\ ~Exists(fs, WsRoot)

\* The mirrors of a finished invocation: per mapping its source directory,
\* its destination directory and the filters it was run with.
NoFilter == SourceSpec(<<>>, <<>>, <<>>)

Mirrors ==
    IF cmd.op = "start"
    THEN {[src |-> OrigAt(cfg.sources[k].path), dst |-> WsAt(cfg.sources[k].path),
           filter |-> cfg.sources[k]] : k \in 1..Len(cfg.sources)}
    ELSE IF cmd.op = "refresh"
    THEN {[src |-> OrigAt(cmd.paths[k]), dst |-> WsAt(cmd.paths[k]),
           filter |-> NoFilter] : k \in 1..Len(cmd.paths)}
    ELSE IF cmd.op = "syncback"
    THEN {[src |-> WsAt(cmd.paths[k]), dst |-> OrigAt(cmd.paths[k]),
           filter |-> NoFilter] : k \in 1..Len(cmd.paths)}
    ELSE {}

\* With delete off nothing that existed when the invocation began is gone
\* (the staging directory aside, which sync_back clears by itself).
NothingRemoved ==
    \A p \in DOMAIN fs0 : ~IsPrefix(Staging, p) => p \in DOMAIN fs

\* A destination entry that a filter of the mirror rejects, or that holds one.
Protected(m, r) ==
    \E q \in Below(fs0, m.dst) : IsPrefix(r, q) /\ ~RefAccepts(m.filter, q)

MirrorOp == cmd.op \in {"start", "refresh", "syncback"}

C14_DiffLeavesTreesAlone ==
    /\ cmd.op = "status" => fs = fs0
    /\ (AtExit("Ask") /\ ~SyncBackRuns) => fs = fs0

\* The pending check found the edited file and touched nothing.
C14_Witness ==
    /\ AtExit("Ask")
    /\ cmd.pc = "exit_confirm"
    /\ cmd.pending
    /\ SomeDiffPending(fs)
    /\ Tree(fs, WsRoot) = Tree(fs0, WsRoot)
    /\ Tree(fs, OrigRoot) = Tree(fs0, OrigRoot)
    /\ Content(fs, <<"shm", "ws", "a", "b.txt">>) = "v1"
    /\ Content(fs, <<"proj", "a", "b.txt">>) = "v0"

\* status returned.
StatusDone == cmd.op = "status" /\ cmd.pc = "done"

\* C15: when WorkspaceRoot is absent the status snapshot has exists = false,
\* the capacity fields unset and all diff counts zero, and neither the
\* file system query nor any diff was made.
C15_AbsentWorkspaceEmptySnapshot ==
    (StatusDone /\ ~Exists(fs0, WsRoot)) =>
      /\ cmd.res = "ok"
      /\ ~cmd.report.exists
      /\ ~cmd.report.cap
      /\ cmd.report.changed = 0 /\ cmd.report.added = 0 /\ cmd.report.deleted = 0
      /\ ~cmd.report.statfs
      /\ cmd.report.diffs = 0

\* status on a workspace that was provisioned and then destroyed.
C15_Witness ==
    /\ StatusDone
    /\ ~Exists(fs0, WsRoot)
    /\ ~cmd.report.exists
    /\ Content(fs0, <<"proj", "a", "b.txt">>) = "v1"

\* The sum of one count over the DiffSummaries of the sources in K.
RECURSIVE RefSum(_, _)
RefSum(K, field) ==
    IF K = {} THEN 0
    ELSE LET k == CHOOSE x \in K : TRUE
             source == cfg.sources[k]
         IN DiffPath(fs0, Join(WsRoot, source.path), Join(OrigRoot, source.path),
                     StatusOptions(source))[field]
            + RefSum(K \ {k}, field)

\* C16: the status snapshot never fails because the capacity query or the
\* diff of a mapping failed: the result is Ok, a failed capacity query leaves
\* the capacity fields unset, and each aggregate count is the sum of that
\* count over exactly the source mappings whose diff succeeded.
C16_StatusIsBestEffort ==
    StatusDone =>
      /\ cmd.res = "ok"
      /\ cmd.report.capFailed => ~cmd.report.cap
      /\ (cmd.report.exists /\ ~cmd.report.capFailed) => cmd.report.cap
      /\ cmd.report.exists =>
           LET good == (1..Len(cfg.sources)) \ cmd.report.failed
           IN /\ cmd.report.changed = RefSum(good, "changed")
              /\ cmd.report.added = RefSum(good, "added")
              /\ cmd.report.deleted = RefSum(good, "deleted")

\* The capacity query and the diff of a failed: the snapshot was returned
\* and the pending change of a is not in its counts.
C16_Witness ==
    /\ StatusDone
    /\ cfg.sources = PlainSources
    /\ cmd.report.exists
    /\ cmd.report.capFailed
    /\ cmd.report.failed = {1}
    /\ Content(fs0, <<"shm", "ws", "a", "b.txt">>) = "v1"
    /\ Content(fs0, <<"proj", "a", "b.txt">>) = "v0"
    /\ cmd.report.changed + cmd.report.added + cmd.report.deleted = 0

\* C17: WorkspaceRoot is a pure function of ProjectRoot's canonical path and
\* the configured template: two resolutions with the same ProjectRoot and
\* the same template yield the same WorkspaceRoot, whatever else differs
\* between the two invocations; and a template that contains ${PROJECT}
\* yields a root that contains the project slug.
C17_WorkspaceRootPureFunction ==
    /\ \A i \in 1..Len(loads) : \A j \in 1..Len(loads) :
          (loads[i].orig_root = loads[j].orig_root /\ loads[i].template = loads[j].template)
            => loads[i].workspace_root = loads[j].workspace_root
    /\ \A i \in 1..Len(loads) :
          Contains(loads[i].template, <<ProjectVar>>)
            => Contains(loads[i].workspace_root, loads[i].project_slug)

\* C18: the order of the mappings does not matter: whenever ensure, refresh
\* or syncback has returned success, the same call on the same file system
\* with the same mappings in any other order (nested mappings, mappings of
\* one directory with different filters), if it succeeds too, leaves the
\* same workspace tree (ensure, refresh) or the same origin tree (syncback).
C18_OrderOfMappingsIrrelevant ==
    /\ DoneOk("start") =>
         \A sources \in Orderings(cfg.sources) :
            LET other == EnsureResult(fs0, [cfg EXCEPT !.sources = sources], cmd.rso)
            IN other # Failed => Tree(other, WsRoot) = Tree(fs, WsRoot)
    /\ DoneOk("refresh") =>
         \A paths \in Orderings(cmd.paths) :
            LET other == RefreshResult(fs0, paths)
            IN other # Failed => Tree(other, WsRoot) = Tree(fs, WsRoot)
    /\ DoneOk("syncback") =>
         \A paths \in Orderings(cmd.paths) :
            LET other == SyncBackResult(fs0, paths)
            IN other # Failed => Tree(other, OrigRoot) = Tree(fs, OrigRoot)

\* ensure has succeeded with the nested mapping first on a workspace that
\* held the user's a/sub/n.txt, which the inner mapping deleted although the
\* outer one protects it, and the other order succeeds as well.
C18_Witness ==
    /\ DoneOk("start")
    /\ cfg.sources = Reverse(NestedSources)
    /\ cfg.delete
    /\ Content(fs0, Join(WsRoot, <<"a", "sub", "n.txt">>)) = "v1"
    /\ Content(fs0, Join(WsRoot, <<"a", "n.txt">>)) = "v1"
    /\ ~Exists(fs, Join(WsRoot, <<"a", "sub", "n.txt">>))
    /\ Exists(fs, Join(WsRoot, <<"a", "n.txt">>))
    /\ EnsureResult(fs0, [cfg EXCEPT !.sources = NestedSources], cmd.rso) # Failed

\* The rsync calls of sync_back, as the history of the call records them.
IsStageCall(c) == IsPrefix(WsRoot, c.src) /\ IsPrefix(Staging, c.dst)

IsApplyCall(c) == IsPrefix(Staging, c.src) /\ ~IsPrefix(Staging, c.dst)

\* C19: syncback is two-phase per invocation: within one syncback call, the
\* workspace -> staging mirror of every mapping of the call has completed
\* before the first staging -> origin mirror of any mapping begins, so no
\* workspace -> staging mirror follows a staging -> origin mirror.
C19_EveryMappingStagedBeforeFirstApply ==
    cmd.op = "syncback" =>
      \A j \in 1..Len(calls) :
         IsApplyCall(calls[j]) =>
           /\ \A k \in 1..Len(cmd.paths) :
                 \E i \in 1..(j - 1) :
                    /\ IsStageCall(calls[i])
                    /\ calls[i].ok
                    /\ calls[i].src = Canon(WsAt(cmd.paths[k]))
           /\ \A i \in (j + 1)..Len(calls) : ~IsStageCall(calls[i])

\* The mapping the j-th rsync call of a refresh or syncback belongs to, and
\* the source and destination that call has when the mappings are mirrored
\* one at a time in input order.
CallPosition(j) == IF cmd.op = "refresh" THEN j ELSE (j + 1) \div 2

CallInOrder(j) ==
    LET rel == cmd.paths[CallPosition(j)]
    IN IF cmd.op = "refresh"
       THEN calls[j].src = OrigAt(rel) /\ calls[j].dst = WsAt(rel)
       ELSE IF j % 2 = 1
       THEN calls[j].src = WsAt(rel) /\ calls[j].dst = StageAt(rel)
       ELSE calls[j].src = StageAt(rel) /\ calls[j].dst = OrigAt(rel)

\* The file system after the mappings before position i have been mirrored.
AfterMappingsBefore(i) ==
    IF cmd.op = "refresh" THEN RefreshResult(fs0, SubSeq(cmd.paths, 1, i - 1))
    ELSE SyncBackResult(fs0, SubSeq(cmd.paths, 1, i - 1))

DestAt(rel) == IF cmd.op = "refresh" THEN WsAt(rel) ELSE OrigAt(rel)

\* C20: refresh and syncback mirror the mappings one at a time in input
\* order; when the mirror of the mapping at position i fails, the call ends
\* with that error, that mirror is the last rsync call of the invocation (no
\* mirror is issued for a later mapping), and the destination of every
\* mapping before position i is what its mirror made it (nothing is rolled
\* back).
C20_InOrderAbortOnFirstFailure ==
    cmd.op \in {"refresh", "syncback"} =>
      /\ \A j \in 1..Len(calls) :
            /\ CallPosition(j) <= Len(cmd.paths)
            /\ CallInOrder(j)
            /\ ~calls[j].ok =>
                 /\ j = Len(calls)
                 /\ cmd.pc = "done"
                 /\ cmd.res = "err"
                 /\ cmd.i = CallPosition(j)
      /\ (cmd.pc = "done" /\ cmd.res = "err") =>
            \A k \in 1..(cmd.i - 1) :
               Tree(fs, DestAt(cmd.paths[k]))
                 = Tree(AfterMappingsBefore(cmd.i), DestAt(cmd.paths[k]))

\* refresh of a and b: the mirror of a has undone the user's edit in the
\* workspace, the mirror of b has failed, and the call has ended with the
\* error, a's workspace tree being the origin's.
C20_Witness ==
    /\ cmd.op = "refresh"
    /\ cmd.pc = "done"
    /\ cmd.res = "err"
    /\ cmd.paths = <<(<<"a">>), (<<"b">>)>>
    /\ cmd.i = 2
    /\ Len(calls) = 2
    /\ calls[1].ok
    /\ ~calls[2].ok
    /\ Tree(fs0, WsAt(<<"a">>)) # Tree(fs0, OrigAt(<<"a">>))
    /\ Tree(fs, WsAt(<<"a">>)) = Tree(fs, OrigAt(<<"a">>))

\* The workspace holds, under every source mapping, nothing but what origin
\* holds at the same place: there is no edit to carry back.
NoEditsIn(f) ==
    \A k \in 1..Len(cfg.sources) :
       \A r \in Below(f, WsAt(cfg.sources[k].path)) :
          Content(f, Join(WsAt(cfg.sources[k].path), r))
            = Content(f, Join(OrigAt(cfg.sources[k].path), r))

\* A successful syncback of the source mappings that follows a successful
\* ensure with nothing in between, the workspace holding no edit.
NoOpRoundTrip ==
    /\ DoneOk("syncback")
    /\ prev.op = "start"
    /\ prev.res = "ok"
    /\ cmd.paths = SourcePaths(cfg)
    /\ NoEditsIn(fs0)

\* C21: no data is lost by a no-op round trip: after a successful ensure
\* followed, with no workspace edit, by a successful syncback of the source
\* mappings, every mapping's origin tree is what it was before, whatever the
\* delete policy and the filters; origin entries the exclude patterns kept
\* out of the workspace are still in origin.
C21_NoOpRoundTripKeepsOrigin ==
    NoOpRoundTrip =>
      \A k \in 1..Len(cfg.sources) :
         Tree(fs, OrigAt(cfg.sources[k].path)) = Tree(fs0, OrigAt(cfg.sources[k].path))

\* The entries below root that lie in none of the subtrees at tops, and are
\* not root itself.
OutsideOf(root, tops) ==
    {q \in DOMAIN fs \cup DOMAIN fs0 :
        /\ IsPrefix(root, q)
        /\ q # root
        /\ \A t \in tops : ~IsPrefix(t, q)}

UnchangedAt(Q) == \A q \in Q : Content(fs, q) = Content(fs0, q)

BuildDirTops == {Canon(Join(WsRoot, cfg.build_dirs[k].path)) : k \in 1..Len(cfg.build_dirs)}

\* C22: destructive mirroring never escapes its intended subtree: at every
\* moment of a syncback over the paths M, every origin entry outside the
\* subtrees origin/m and outside the staging directory is as it was when the
\* call began; at every moment of a refresh over M, so is every workspace
\* entry outside the subtrees workspace/m; and so is, during ensure, every
\* workspace entry outside the source mappings and the build directories.
C22_MirrorStaysInItsSubtree ==
    /\ cmd.op = "syncback" =>
         UnchangedAt(OutsideOf(OrigRoot, {OrigAt(cmd.paths[k]) : k \in 1..Len(cmd.paths)}
                                           \cup {Staging}))
    /\ cmd.op = "refresh" =>
         UnchangedAt(OutsideOf(WsRoot, {WsAt(cmd.paths[k]) : k \in 1..Len(cmd.paths)}))
    /\ cmd.op = "start" =>
         UnchangedAt(OutsideOf(WsRoot, {WsAt(cfg.sources[k].path) : k \in 1..Len(cfg.sources)}
                                         \cup BuildDirTops))

\* The files of the workspace, under the source mappings, that origin lacks
\* or holds with another content: added or modified and not synced back.
UnsyncedFiles(f) ==
    UNION {{Join(WsAt(cfg.sources[k].path), r) :
              r \in {x \in Below(f, WsAt(cfg.sources[k].path)) :
                        /\ IsFile(f, Join(WsAt(cfg.sources[k].path), x))
                        /\ Content(f, Join(OrigAt(cfg.sources[k].path), x))
                             # f[Join(WsAt(cfg.sources[k].path), x)]}} :
           k \in 1..Len(cfg.sources)}

\* C23: a workspace change that was not synced back is discarded by refresh
\* or delete only: when ensure returns success on a workspace that held
\* added or modified files (start, and every shell entry), each of these
\* files is still there with the content it had, whatever the delete policy.
C23_EnsureKeepsUnsyncedWork ==
    (DoneOk("start") \/ (cmd.op = "shell" /\ cmd.pc = "session" /\ ~cmd.exited /\ calls # <<>>)) =>
       \A q \in UnsyncedFiles(fs0) : Content(fs, q) = Content(fs0, q)

\* C24: after a successful ensure called without the flag that skips the
\* build directories, every build directory exists under the workspace
\* root, also when a source mapping (path ".") covers its place and the
\* delete policy is on.
C24_BuildDirsExistAfterEnsure ==
    (DoneOk("start") /\ ~cmd.rso) =>
       \A k \in 1..Len(cfg.build_dirs) :
          IsDir(fs, Canon(Join(WsRoot, cfg.build_dirs[k].path)))

\* C25: staging hygiene: every syncback starts its staging phase from an
\* empty staging directory (what an earlier interrupted or failed run left
\* there never reaches origin), and after syncback returns success the
\* staging directory no longer exists under the project root.
C25_StagingFreshAndRemoved ==
    /\ (cmd.op = "syncback" /\ cmd.pc = "sb_stage" /\ cmd.i = 1)
          => (IsDir(fs, Staging) /\ Below(fs, Staging) = {})
    /\ DoneOk("syncback") => ~Exists(fs, Staging)

AllTerminated == procs # <<>> /\ \A p \in Procs : procs[p].pc = "done"

\* C26: when two syncback invocations for the same project and the same
\* mappings run side by side from an unchanged workspace, the shared
\* staging directory causes no data loss: once both have terminated, the
\* mapped subtrees of origin hold every workspace entry with the
\* workspace's content.
C26_ConcurrentSyncBackLosesNothing ==
    AllTerminated =>
      \A k \in 1..Len(RacePaths) :
         \A r \in Below(fs, WsAt(RacePaths[k])) :
            Content(fs, Join(OrigAt(RacePaths[k]), r))
              = Content(fs, Join(WsAt(RacePaths[k]), r))

Roles == {"Source", "Cache", "Scratch"}

\* The configured paths whose category is among the roles.
PathsOfRoles(c, roles) ==
    (IF "Source" \in roles THEN Range(SourcePaths(c)) ELSE {})
    \cup (IF "Cache" \in roles THEN BuildPaths(c, "Cache") ELSE {})
    \cup (IF "Scratch" \in roles THEN BuildPaths(c, "Scratch") ELSE {})

\* C27: a sync invocation restricted to a non-empty set of roles, without a
\* path list, hands to refresh or syncback exactly the configured paths
\* whose category is among the roles: the source mappings iff Source is one
\* of them, the build directories of a kind iff the kind is; never a source
\* mapping when Source is not, also when no build directory of the kind
\* asked for is configured.
C27_RolesSelectExactlyTheirPaths ==
    [][\A back \in BOOLEAN : \A roles \in (SUBSET Roles) \ {{}} :
          SyncCommand(back, <<>>, roles, TRUE)
            => Range(cmd'.paths) = PathsOfRoles(cfg, roles)]_vars

\* C28: origin is modified by syncback only: no step of ensure, refresh,
\* status (with its diffs) or workspace delete, whether the call succeeds
\* or fails, and no step made between two calls, changes an entry under the
\* project root.
C28_OnlySyncBackWritesOrigin ==
    [][cmd.op # "syncback" => Tree(fs', OrigRoot) = Tree(fs, OrigRoot)]_vars

\* A refresh has failed after it changed the workspace (it undid an edit of
\* the user), and origin is what it was when the call began.
C28_Witness ==
    /\ cmd.op = "refresh"
    /\ cmd.pc = "done"
    /\ cmd.res = "err"
    /\ calls # <<>>
    /\ Tree(fs, WsRoot) # Tree(fs0, WsRoot)
    /\ Tree(fs, OrigRoot) = Tree(fs0, OrigRoot)

====
